---- MODULE Spec2Model ----
(***************************************************************************)
(* A model of compute_next_version.py: the commit-title markers, the       *)
(* ignore-pattern matcher, the Commit constructor, the aggregator          *)
(* _decide_bump_from_commits, the version incrementer increment_bump and   *)
(* the orchestrator work.                                                  *)
(*                                                                         *)
(* Text is modelled as a sequence of pieces.  A commit title is the        *)
(* concatenation of its pieces; each piece is either one marker spelling   *)
(* (in some letter case) or filler text without brackets, so "marker m is  *)
(* a substring of the title" is "m is one of the pieces".  A path or a     *)
(* glob pattern is the concatenation of its pieces, "*" being the glob     *)
(* wildcard.  A version tag is a sequence of single characters.            *)
(*                                                                         *)
(* A call either returns a value or raises: its outcome is a record        *)
(* [raised |-> the exception's name or "", value |-> the returned value].  *)
(***************************************************************************)
EXTENDS Integers, Sequences, FiniteSets, TLC

VARIABLES
    ENV,                    \* the module global ENV (EnvConfig)
    git_log,                \* the records `git log` prints for FIRST..HEAD
    commits,                \* argument of _decide_bump_from_commits
    ignore_path_patterns,   \* argument of _decide_bump_from_commits
    force_patch,            \* argument of _decide_bump_from_commits
    version_tag,            \* argument of increment_bump / work
    version_style,          \* argument of increment_bump / work
    bump,                   \* the aggregator's decision / argument of increment_bump
    next_version,           \* what increment_bump returned
    stdout,                 \* the lines printed to the primary output
    raised,                 \* the exception the call ended with, "" for none
    pc                      \* "call" before the function ran, "done" after

vars == <<ENV, git_log, commits, ignore_path_patterns, force_patch, version_tag,
          version_style, bump, next_version, stdout, raised, pc>>

----------------------------------------------------------------------------
(* Outcomes of a call *)

None == "None"
Unset == "unset"

Return(v) == [raised |-> "", value |-> v]

Raise(e) == [raised |-> e, value |-> None]

\* any(xs): the first outcome that raises or is true decides; an exhausted
\* iterable gives False.
RECURSIVE AnyOf(_)
AnyOf(outcomes) ==
    IF outcomes = <<>> THEN Return(FALSE)
    ELSE IF Head(outcomes).raised # "" THEN Head(outcomes)
    ELSE IF Head(outcomes).value THEN Return(TRUE)
    ELSE AnyOf(Tail(outcomes))

----------------------------------------------------------------------------
(* Version styles, bump types and the marker table *)

VERSION_STYLE_X_Y_Z == "X.Y.Z"
VERSION_STYLE_X_Y == "X.Y"

MAJOR == "MAJOR"
MINOR == "MINOR"
PATCH == "PATCH"
NO_BUMP == "NO_BUMP"

BumpType == <<MAJOR, MINOR, PATCH, NO_BUMP>>

BUMP_TOKENS ==
    [b \in {MAJOR, MINOR, PATCH, NO_BUMP} |->
        CASE b = MAJOR -> <<"[major]">>
          [] b = MINOR -> <<"[minor]">>
          [] b = PATCH -> <<"[patch]", "[fix]", "[bump]">>
          [] b = NO_BUMP -> <<"[no-bump]", "[no_bump]", "[nobump]">>]

\* str.lower() on one piece of text: the pieces spelled with capitals map to
\* their lowercase spelling, lowercase text is unchanged.
LowerPiece(p) ==
    CASE p = "[MAJOR]" -> "[major]"
      [] p = "[Major]" -> "[major]"
      [] p = "[Minor]" -> "[minor]"
      [] p = "[Fix]" -> "[fix]"
      [] p = "[PATCH]" -> "[patch]"
      [] p = "[NoBump]" -> "[nobump]"
      [] p = "[No-Bump]" -> "[no-bump]"
      [] p = "Feat: " -> "feat: "
      [] OTHER -> p

Lower(text) == [i \in DOMAIN text |-> LowerPiece(text[i])]

\* `x in string`
Contains(string, x) == \E i \in DOMAIN string : string[i] = x

HasBumpToken(b, string) ==
    \E k \in DOMAIN BUMP_TOKENS[b] : Contains(string, BUMP_TOKENS[b][k])

----------------------------------------------------------------------------
(* fnmatch.fnmatch and are_all_files_ignored *)

\* Shell-glob match of a whole name against a whole pattern: "*" matches any
\* run of pieces (the empty run and "/" included), any other piece itself.
RECURSIVE Fnmatch(_, _)
Fnmatch(f, pat) ==
    IF pat = <<>> THEN f = <<>>
    ELSE IF Head(pat) = "*"
         THEN Fnmatch(f, Tail(pat)) \/ (f # <<>> /\ Fnmatch(Tail(f), pat))
         ELSE f # <<>> /\ Head(f) = Head(pat) /\ Fnmatch(Tail(f), Tail(pat))

AreAllFilesIgnored(changed_files, env) ==
    IF changed_files = <<>> THEN TRUE
    ELSE \A i \in DOMAIN changed_files :
            \E k \in DOMAIN env.IGNORE_PATHS :
                Fnmatch(changed_files[i], env.IGNORE_PATHS[k])

----------------------------------------------------------------------------
(* Name resolution *)

\* The names bound in the module's global namespace when a function body runs.
ModuleGlobals ==
    {"dc", "enum", "fnmatch", "logging", "os", "subprocess", "Optional",
     "from_environment_as_dataclass", "EnvConfig", "ENV",
     "VERSION_STYLE_X_Y_Z", "VERSION_STYLE_X_Y", "InvalidVersionStyle",
     "BumpType", "BUMP_TOKENS", "_has_bump_token", "are_all_files_ignored",
     "DisqualifiedCommit", "Commit", "get_commits_with_changes", "major_bump",
     "minor_bump", "patch_bump", "increment_bump", "_decide_bump_from_commits",
     "work", "main"}

\* Reading a name that is neither a local of the running function nor a module
\* global raises NameError; otherwise the read gives the object bound to it.
NameLookup(name, locals) ==
    IF name \in locals \/ name \in ModuleGlobals THEN Return(name)
    ELSE Raise("NameError")

----------------------------------------------------------------------------
(* Commit *)

\* Commit.__post_init__: every table kind whose marker is in the title
\* overwrites bump_type (the loop has no break); a title without marker leaves
\* the attribute unset, and reading it raises AttributeError, so the tokenless
\* branch below that read is never entered.
CommitPostInit(title, changed_files, env) ==
    LET title_lower == Lower(title)
        matched == SelectSeq(BumpType, LAMBDA b : HasBumpToken(b, title_lower))
        bump_type == IF matched = <<>> THEN Unset ELSE matched[Len(matched)]
    IN  IF bump_type = Unset THEN Raise("AttributeError")
        ELSE IF bump_type = NO_BUMP THEN Raise("DisqualifiedCommit")
        ELSE Return([title |-> title, changed_files |-> changed_files,
                     title_lower |-> title_lower, bump_type |-> bump_type])

\* The loop of get_commits_with_changes over the records of `git log`: a
\* DisqualifiedCommit is swallowed, any other exception ends the call.
RECURSIVE GetCommitsWithChanges(_, _)
GetCommitsWithChanges(log, env) ==
    IF log = <<>> THEN Return(<<>>)
    ELSE LET c == CommitPostInit(Head(log).title, Head(log).changed_files, env)
             rest == GetCommitsWithChanges(Tail(log), env)
         IN  IF c.raised = "DisqualifiedCommit" THEN rest
             ELSE IF c.raised # "" THEN c
             ELSE IF rest.raised # "" THEN rest
             ELSE Return(<<c.value>> \o rest.value)

----------------------------------------------------------------------------
(* The aggregator *)

\* The call _commit_has_non_ignored_changes(c.changed_files, patterns) starts
\* by reading the callee's name, which no def, import or assignment binds: the
\* outcome of the call is the outcome of that read.
CommitHasNonIgnoredChanges(changed_files, patterns) ==
    NameLookup("_commit_has_non_ignored_changes",
               {"commits", "ignore_path_patterns", "force_patch", "titles_lower",
                "any_no_bump", "_is_tokenless", "c"})

IsTokenless(c) ==
    ~(\/ HasBumpToken(MAJOR, c.title_lower)
      \/ HasBumpToken(MINOR, c.title_lower)
      \/ HasBumpToken(PATCH, c.title_lower)
      \/ HasBumpToken(NO_BUMP, c.title_lower))

DecideFirstCommitOnly(cs, patterns, force) ==
    IF cs = <<>> THEN Return(None)
    ELSE IF HasBumpToken(MAJOR, cs[1].title_lower) THEN Return(MAJOR)
    ELSE IF HasBumpToken(MINOR, cs[1].title_lower) THEN Return(MINOR)
    ELSE IF HasBumpToken(PATCH, cs[1].title_lower) THEN Return(PATCH)
    ELSE IF HasBumpToken(NO_BUMP, cs[1].title_lower) THEN Return(NO_BUMP)
    ELSE Return(None)

DecideNoBumpFirst(cs, patterns, force) ==
    LET AnyTagged(b) == \E i \in DOMAIN cs : HasBumpToken(b, cs[i].title_lower)
    IN  IF AnyTagged(NO_BUMP) THEN Return(NO_BUMP)
        ELSE IF AnyTagged(MAJOR) THEN Return(MAJOR)
        ELSE IF AnyTagged(MINOR) THEN Return(MINOR)
        ELSE IF AnyTagged(PATCH) THEN Return(PATCH)
        ELSE Return(None)

DecideForceAnyTokenless(cs, patterns, force) ==
    LET AnyMarker(b) == \E i \in DOMAIN cs : HasBumpToken(b, cs[i].title_lower)
        any_tokenless == \E i \in DOMAIN cs : IsTokenless(cs[i])
    IN  IF AnyMarker(MAJOR) THEN Return(MAJOR)
        ELSE IF AnyMarker(MINOR) THEN Return(MINOR)
        ELSE IF AnyMarker(PATCH) THEN Return(PATCH)
        ELSE IF AnyMarker(NO_BUMP) /\ ~any_tokenless THEN Return(NO_BUMP)
        ELSE IF any_tokenless THEN (IF force THEN Return(PATCH) ELSE Return(None))
        ELSE Return(None)

DecideBumpFromCommits(cs, patterns, force) ==
    LET titles_lower == [i \in DOMAIN cs |-> cs[i].title_lower]
        AnyTitle(b) == \E i \in DOMAIN titles_lower : HasBumpToken(b, titles_lower[i])
        any_no_bump == AnyTitle(NO_BUMP)
        tokenless == SelectSeq(cs, IsTokenless)
        any_tokenless_with_effective_change ==
            AnyOf([i \in DOMAIN tokenless |->
                     CommitHasNonIgnoredChanges(tokenless[i].changed_files, patterns)])
    IN  IF AnyTitle(MAJOR) THEN Return(MAJOR)
        ELSE IF AnyTitle(MINOR) THEN Return(MINOR)
        ELSE IF AnyTitle(PATCH) THEN Return(PATCH)
        ELSE IF any_tokenless_with_effective_change.raised # ""
             THEN any_tokenless_with_effective_change
        ELSE IF any_no_bump /\ ~any_tokenless_with_effective_change.value
             THEN Return(NO_BUMP)
        ELSE IF any_tokenless_with_effective_change.value
             THEN (IF force THEN Return(PATCH) ELSE Return(None))
        ELSE Return(None)

----------------------------------------------------------------------------
(* Version text: str.split, int and str *)

Digits == <<"0", "1", "2", "3", "4", "5", "6", "7", "8", "9">>

IsDigit(ch) == \E d \in DOMAIN Digits : Digits[d] = ch

DigitValue(ch) == (CHOOSE d \in DOMAIN Digits : Digits[d] = ch) - 1

\* version_tag.split("."): the pieces between the separators, empty pieces kept.
RECURSIVE Split(_, _)
Split(text, sep) ==
    IF text = <<>> THEN << <<>> >>
    ELSE LET rest == Split(Tail(text), sep)
         IN  IF Head(text) = sep THEN << <<>> >> \o rest
             ELSE << <<Head(text)>> \o rest[1] >> \o Tail(rest)

RECURSIVE DigitsValue(_)
DigitsValue(text) ==
    IF text = <<>> THEN 0
    ELSE 10 * DigitsValue(SubSeq(text, 1, Len(text) - 1)) + DigitValue(text[Len(text)])

\* int(text) for text over digits, signs and other characters: an optional
\* sign followed by at least one digit, anything else is a ValueError.
ParseInt(text) ==
    LET signed == text # <<>> /\ text[1] \in {"-", "+"}
        digits == IF signed THEN Tail(text) ELSE text
    IN  IF digits = <<>> \/ \E i \in DOMAIN digits : ~IsDigit(digits[i])
        THEN Raise("ValueError")
        ELSE IF signed /\ text[1] = "-" THEN Return(0 - DigitsValue(digits))
        ELSE Return(DigitsValue(digits))

RECURSIVE NatStr(_)
NatStr(n) ==
    IF n < 10 THEN <<Digits[n + 1]>>
    ELSE NatStr(n \div 10) \o <<Digits[(n % 10) + 1]>>

\* str(n) as an f-string formats an int
ToStr(n) == IF n < 0 THEN <<"-">> \o NatStr(0 - n) ELSE NatStr(n)

\* `a, b, ... = map(int, parts)` with n targets: a ValueError when the number
\* of parts is not n or when int() rejects a part.
UnpackInts(parts, n) ==
    IF Len(parts) # n THEN Raise("ValueError")
    ELSE IF \E i \in DOMAIN parts : ParseInt(parts[i]).raised # ""
         THEN Raise("ValueError")
    ELSE Return([i \in DOMAIN parts |-> ParseInt(parts[i]).value])

----------------------------------------------------------------------------
(* The version incrementer *)

major_bump(major) == <<major + 1, 0, 0>>

minor_bump(major, minor) == <<major, minor + 1, 0>>

patch_bump(major, minor, patch) == <<major, minor, patch + 1>>

\* The starting segments <<major, minor, patch>> of the tag, or the exception
\* of the try block: the style is tested first, a ValueError of the unpacking
\* is raised again as ValueError.
ParseSegments(tag, style) ==
    LET parts == Split(tag, ".")
    IN  IF style = VERSION_STYLE_X_Y_Z THEN UnpackInts(parts, 3)
        ELSE IF style = VERSION_STYLE_X_Y
             THEN (IF UnpackInts(parts, 2).raised # "" THEN UnpackInts(parts, 2)
                   ELSE Return(UnpackInts(parts, 2).value \o <<0>>))
        ELSE Raise("InvalidVersionStyle")

PatchInXYKeepsMinor(v, b, style) ==
    IF b = MAJOR THEN Return(major_bump(v[1]))
    ELSE IF b = MINOR THEN Return(minor_bump(v[1], v[2]))
    ELSE IF b = PATCH THEN Return(patch_bump(v[1], v[2], v[3]))
    ELSE Raise("ValueError")

MinorKeepsPatch(v, b, style) ==
    IF b = MAJOR THEN Return(major_bump(v[1]))
    ELSE IF b = MINOR THEN Return(<<v[1], v[2] + 1, v[3]>>)
    ELSE IF b = PATCH
         THEN (IF style = VERSION_STYLE_X_Y_Z THEN Return(patch_bump(v[1], v[2], v[3]))
               ELSE Return(minor_bump(v[1], v[2])))
    ELSE Raise("ValueError")

\* The if/elif chain on the bump type: the segments after the bump
BumpSegments(v, b, style) ==
    IF b = MAJOR THEN Return(major_bump(v[1]))
    ELSE IF b = MINOR THEN Return(minor_bump(v[1], v[2]))
    ELSE IF b = PATCH
         THEN (IF style = VERSION_STYLE_X_Y_Z
               THEN Return(patch_bump(v[1], v[2], v[3]))
               ELSE IF style = VERSION_STYLE_X_Y
                    THEN Return(minor_bump(v[1], v[2]))
               ELSE Raise("InvalidVersionStyle"))
    ELSE Raise("ValueError")

\* The f-strings that build the next version
Stringify(n, style) ==
    IF style = VERSION_STYLE_X_Y_Z
    THEN Return(ToStr(n[1]) \o <<".">> \o ToStr(n[2]) \o <<".">> \o ToStr(n[3]))
    ELSE IF style = VERSION_STYLE_X_Y
         THEN Return(ToStr(n[1]) \o <<".">> \o ToStr(n[2]))
    ELSE Raise("InvalidVersionStyle")

IncrementBump(tag, b, style) ==
    LET parsed == ParseSegments(tag, style)
        next == BumpSegments(parsed.value, b, style)
    IN  IF parsed.raised # "" THEN parsed
        ELSE IF next.raised # "" THEN next
        ELSE Stringify(next.value, style)

----------------------------------------------------------------------------
(* The orchestrator *)

\* work(version_tag, first_commit, version_style): its outcome is the exception
\* it ended with and the lines it printed.  The names ignore_path_patterns,
\* force_patch and changed_files are read in the body but are neither
\* parameters (they are commented out of the signature) nor module globals.
Work(tag, log, style, env) ==
    LET locals == {"version_tag", "first_commit", "version_style", "commits",
                   "bump", "next_version"}
        Ended(e) == [raised |-> e, stdout |-> <<>>]
        patterns == NameLookup("ignore_path_patterns", locals)
        force == NameLookup("force_patch", locals)
        got == GetCommitsWithChanges(log, env)
        decided == DecideBumpFromCommits(got.value, patterns.value, force.value)
        files == NameLookup("changed_files", locals)
        next == IncrementBump(tag, decided.value, style)
    IN  IF patterns.raised # "" THEN Ended(patterns.raised)
        ELSE IF force.raised # "" THEN Ended(force.raised)
        ELSE IF got.raised # "" THEN Ended(got.raised)
        ELSE IF decided.raised # "" THEN Ended(decided.raised)
        ELSE IF decided.value = NO_BUMP THEN Ended("")
        ELSE IF decided.value = None
             THEN (IF files.raised # "" THEN Ended(files.raised)
                   ELSE Ended("TypeError"))
        ELSE IF next.raised # "" THEN Ended(next.raised)
        ELSE [raised |-> "", stdout |-> <<next.value>>]

----------------------------------------------------------------------------
(* Inputs *)

MaxCommits == 2
MaxTagLen == 5

\* Sequences over S of length at most n
SeqsUpTo(S, n) == UNION {[1..k -> S] : k \in 0..n}

\* Commit titles as the collaborator reports them (letter case as typed)
TitleSet ==
    { <<"chore: x">>,
      <<"Feat: ", "[MAJOR]">>,
      <<"[minor]", " api">>,
      <<"fix ", "[Fix]">>,
      <<"[bump]", "[Minor]">>,
      <<"ci ", "[no-bump]">>,
      <<"docs ", "[no_bump]">>,
      <<"[NoBump]", "[major]">> }

\* docs/README.md, src/a.py, notes.md
FileLists ==
    { <<>>,
      << <<"docs", "/", "README", ".md">> >>,
      << <<"src", "/", "a", ".py">>, <<"notes", ".md">> >> }

\* [], ["docs/**"], ["docs/**", "*.md"]
PatternLists ==
    { <<>>,
      << <<"docs", "/", "*", "*">> >>,
      << <<"docs", "/", "*", "*">>, <<"*", ".md">> >> }

\* One record of `git log`: a title and the files of that commit
LogRecords == [title : TitleSet, changed_files : FileLists]

\* The fields a Commit carries into the aggregator: title_lower is derived
\* from title when the object is built.
MkCommit(rec) ==
    [title |-> rec.title, changed_files |-> rec.changed_files,
     title_lower |-> Lower(rec.title)]

CommitSet == {MkCommit(rec) : rec \in LogRecords}

TagChars == {"1", "9", ".", "-", "x"}

StyleSet == {VERSION_STYLE_X_Y_Z, VERSION_STYLE_X_Y, "X"}

\* 1.2.9, 1.2, 1.x.3
WorkTags == { <<"1", ".", "2", ".", "9">>, <<"1", ".", "2">>, <<"1", ".", "x", ".", "3">> }

DefaultENV == [IGNORE_PATHS |-> <<>>, FORCE_PATCH_IF_NO_COMMIT_TOKEN |-> FALSE]

----------------------------------------------------------------------------
(* A call of _decide_bump_from_commits *)

InitDecide ==
    /\ commits \in SeqsUpTo(CommitSet, MaxCommits)
    /\ ignore_path_patterns \in PatternLists
    /\ force_patch \in BOOLEAN
    /\ ENV = DefaultENV
    /\ git_log = <<>>
    /\ version_tag = <<>>
    /\ version_style = VERSION_STYLE_X_Y_Z
    /\ bump = Unset
    /\ next_version = Unset
    /\ stdout = <<>>
    /\ raised = ""
    /\ pc = "call"

DecideBump ==
    /\ pc = "call"
    /\ LET r == DecideBumpFromCommits(commits, ignore_path_patterns, force_patch)
       IN  /\ bump' = (IF r.raised = "" THEN r.value ELSE bump)
           /\ raised' = r.raised
    /\ pc' = "done"
    /\ UNCHANGED <<ENV, git_log, commits, ignore_path_patterns, force_patch,
                   version_tag, version_style, next_version, stdout>>

SpecDecide == InitDecide /\ [][DecideBump]_vars

----------------------------------------------------------------------------
(* A call of increment_bump *)

InitIncrement ==
    /\ version_tag \in SeqsUpTo(TagChars, MaxTagLen)
    /\ bump \in {MAJOR, MINOR, PATCH, NO_BUMP}
    /\ version_style \in StyleSet
    /\ ENV = DefaultENV
    /\ git_log = <<>>
    /\ commits = <<>>
    /\ ignore_path_patterns = <<>>
    /\ force_patch = FALSE
    /\ next_version = Unset
    /\ stdout = <<>>
    /\ raised = ""
    /\ pc = "call"

Increment ==
    /\ pc = "call"
    /\ LET r == IncrementBump(version_tag, bump, version_style)
       IN  /\ next_version' = (IF r.raised = "" THEN r.value ELSE next_version)
           /\ raised' = r.raised
    /\ pc' = "done"
    /\ UNCHANGED <<ENV, git_log, commits, ignore_path_patterns, force_patch,
                   version_tag, version_style, bump, stdout>>

SpecIncrement == InitIncrement /\ [][Increment]_vars

----------------------------------------------------------------------------
(* A run of work *)

Init ==
    /\ ENV \in [IGNORE_PATHS : PatternLists, FORCE_PATCH_IF_NO_COMMIT_TOKEN : BOOLEAN]
    /\ git_log \in SeqsUpTo(LogRecords, MaxCommits)
    /\ version_tag \in WorkTags
    /\ version_style \in StyleSet
    /\ commits = <<>>
    /\ ignore_path_patterns = <<>>
    /\ force_patch = FALSE
    /\ bump = Unset
    /\ next_version = Unset
    /\ stdout = <<>>
    /\ raised = ""
    /\ pc = "call"

WorkRun ==
    /\ pc = "call"
    /\ LET r == Work(version_tag, git_log, version_style, ENV)
       IN  /\ stdout' = stdout \o r.stdout
           /\ raised' = r.raised
    /\ pc' = "done"
    /\ UNCHANGED <<ENV, git_log, commits, ignore_path_patterns, force_patch,
                   version_tag, version_style, bump, next_version>>

Next == WorkRun

Spec == Init /\ [][Next]_vars

----------------------------------------------------------------------------
(* Properties of the aggregator, checked under SpecDecide *)

\* Some commit of the call has a marker of kind b in its title, in any letter case
AnyMarked(b) == \E i \in DOMAIN commits : HasBumpToken(b, Lower(commits[i].title))

NoExplicitMarker == ~AnyMarked(MAJOR) /\ ~AnyMarked(MINOR) /\ ~AnyMarked(PATCH)

\* Commit c has no marker of any kind in its title
Tokenless(c) == \A b \in {MAJOR, MINOR, PATCH, NO_BUMP} : ~HasBumpToken(b, Lower(c.title))

\* Commit c changed a file that matches none of the call's ignore patterns
ChangedNonIgnored(c) ==
    \E i \in DOMAIN c.changed_files :
        \A k \in DOMAIN ignore_path_patterns :
            ~Fnmatch(c.changed_files[i], ignore_path_patterns[k])

TokenlessEffective == \E i \in DOMAIN commits : Tokenless(commits[i]) /\ ChangedNonIgnored(commits[i])

\* C1: when some title carries a Major marker the aggregator returns MAJOR,
\* whatever the other commits carry; with no Major marker and some Minor marker
\* it returns MINOR; with neither and some Patch marker it returns PATCH; for
\* every ignore-pattern list and both values of force_patch.
C1_Precedence ==
    pc = "done" =>
        /\ AnyMarked(MAJOR) => (raised = "" /\ bump = MAJOR)
        /\ (~AnyMarked(MAJOR) /\ AnyMarked(MINOR)) => (raised = "" /\ bump = MINOR)
        /\ (~AnyMarked(MAJOR) /\ ~AnyMarked(MINOR) /\ AnyMarked(PATCH))
               => (raised = "" /\ bump = PATCH)

\* A NoBump-marked commit with changed files ahead of a Major-marked one, under
\* force_patch and a non-empty ignore list, decided MAJOR.
C1_Witness ==
    /\ pc = "done"
    /\ Len(commits) = 2
    /\ HasBumpToken(NO_BUMP, Lower(commits[1].title))
    /\ ~HasBumpToken(MAJOR, Lower(commits[1].title))
    /\ commits[1].changed_files # <<>>
    /\ HasBumpToken(MAJOR, Lower(commits[2].title))
    /\ force_patch
    /\ ignore_path_patterns # <<>>
    /\ bump = MAJOR

\* The commits of the call in the order given by the permutation p of their indices
Permuted(p) == [i \in DOMAIN commits |-> commits[p[i]]]

\* The outcome of the aggregator on the commits reordered by p
PermutedOutcome(p) ==
    DecideBumpFromCommits(Permuted(p), ignore_path_patterns, force_patch)

\* C2: the outcome of the aggregator (the decision it returns, or the exception
\* it ends with) is the same for every permutation of the commit sequence,
\* under the same ignore patterns and force_patch.
C2_OrderIndependent ==
    pc = "done" =>
        \A p \in Permutations(DOMAIN commits) :
            /\ PermutedOutcome(p).raised = raised
            /\ raised = "" => PermutedOutcome(p).value = bump

\* Two commits of different kinds, the lower kind first: a NoBump-marked commit
\* followed by a Patch-marked one decided PATCH.
C2_Witness ==
    /\ pc = "done"
    /\ Len(commits) = 2
    /\ HasBumpToken(NO_BUMP, Lower(commits[1].title))
    /\ HasBumpToken(PATCH, Lower(commits[2].title))
    /\ ~AnyMarked(MAJOR) /\ ~AnyMarked(MINOR)
    /\ bump = PATCH

\* C3: with no Major/Minor/Patch marker in any title, a NoBump-marked commit
\* together with a Tokenless commit that changed a non-ignored file yields "no
\* decision" (the absent result), not NO_BUMP.
C3_VetoIsGlobal ==
    (pc = "done" /\ NoExplicitMarker /\ AnyMarked(NO_BUMP) /\ TokenlessEffective)
        => (raised = "" /\ bump = None)

\* C4: with no Major/Minor/Patch marker in any title, at least one NoBump
\* marker and no Tokenless commit that changed a non-ignored file, the decision
\* is NO_BUMP, for force_patch false and true alike.
C4_VetoImmuneToForcePatch ==
    (pc = "done" /\ NoExplicitMarker /\ AnyMarked(NO_BUMP) /\ ~TokenlessEffective)
        => (raised = "" /\ bump = NO_BUMP)

\* C5: with no Major/Minor/Patch marker in any title and at least one Tokenless
\* commit that changed a non-ignored file, the decision is PATCH when
\* force_patch is true and absent when it is false.
C5_ForcePatchFallback ==
    (pc = "done" /\ NoExplicitMarker /\ TokenlessEffective)
        => (raised = "" /\ bump = (IF force_patch THEN PATCH ELSE None))

\* Every Tokenless commit of the call has no changed file or only ignored ones
TokenlessAllIgnored ==
    \A i \in DOMAIN commits :
        Tokenless(commits[i]) =>
            AreAllFilesIgnored(commits[i].changed_files,
                               [IGNORE_PATHS |-> ignore_path_patterns,
                                FORCE_PATCH_IF_NO_COMMIT_TOKEN |-> force_patch])

----------------------------------------------------------------------------
(* Properties of increment_bump, checked under SpecIncrement *)

\* The components the properties range over, with their decimal text and the
\* decimal text of the numbers one above them
ComponentValues == {1, 9, 11, 19, 91, 99}

Decimal(n) ==
    CASE n = 0 -> <<"0">>
      [] n = 1 -> <<"1">>
      [] n = 2 -> <<"2">>
      [] n = 9 -> <<"9">>
      [] n = 10 -> <<"1", "0">>
      [] n = 11 -> <<"1", "1">>
      [] n = 12 -> <<"1", "2">>
      [] n = 19 -> <<"1", "9">>
      [] n = 20 -> <<"2", "0">>
      [] n = 91 -> <<"9", "1">>
      [] n = 92 -> <<"9", "2">>
      [] n = 99 -> <<"9", "9">>
      [] n = 100 -> <<"1", "0", "0">>

Text3(m, n, p) == Decimal(m) \o <<".">> \o Decimal(n) \o <<".">> \o Decimal(p)

Text2(m, n) == Decimal(m) \o <<".">> \o Decimal(n)

\* C7: for a tag M.N.P under style X.Y.Z, increment_bump returns
\* "(M+1).0.0" for MAJOR, "M.(N+1).0" for MINOR and "M.N.(P+1)" for PATCH; for
\* a tag M.N under style X.Y it returns "(M+1).0" for MAJOR and "M.(N+1)" for
\* MINOR, two components and no patch component.
C7_BumpMath ==
    pc = "done" =>
        \A m \in ComponentValues, n \in ComponentValues :
            /\ \A p \in ComponentValues :
                 (version_style = VERSION_STYLE_X_Y_Z /\ version_tag = Text3(m, n, p)) =>
                     /\ bump = MAJOR => (raised = "" /\ next_version = Text3(m + 1, 0, 0))
                     /\ bump = MINOR => (raised = "" /\ next_version = Text3(m, n + 1, 0))
                     /\ bump = PATCH => (raised = "" /\ next_version = Text3(m, n, p + 1))
            /\ (version_style = VERSION_STYLE_X_Y /\ version_tag = Text2(m, n)) =>
                     /\ bump = MAJOR => (raised = "" /\ next_version = Text2(m + 1, 0))
                     /\ bump = MINOR => (raised = "" /\ next_version = Text2(m, n + 1))

\* Tag 1.9.9 under X.Y.Z with MINOR gave 1.10.0: the minor component carried
\* into a second digit and the patch component was reset.
C7_Witness ==
    /\ pc = "done"
    /\ version_style = VERSION_STYLE_X_Y_Z
    /\ version_tag = <<"1", ".", "9", ".", "9">>
    /\ bump = MINOR
    /\ next_version = <<"1", ".", "1", "0", ".", "0">>

\* The number of "." characters in a text
RECURSIVE DotCount(_)
DotCount(text) ==
    IF text = <<>> THEN 0
    ELSE (IF Head(text) = "." THEN 1 ELSE 0) + DotCount(Tail(text))

\* C8: for a tag M.N under style X.Y, increment_bump with PATCH returns
\* "M.(N+1)", the string increment_bump returns for MINOR, and the result has no
\* third component.
C8_PatchCollapse ==
    (pc = "done" /\ version_style = VERSION_STYLE_X_Y /\ bump = PATCH) =>
        \A m \in ComponentValues, n \in ComponentValues :
            version_tag = Text2(m, n) =>
                /\ raised = ""
                /\ next_version = Text2(m, n + 1)
                /\ IncrementBump(version_tag, MINOR, version_style) = Return(next_version)
                /\ DotCount(next_version) = 1

\* Tag 1.9 under X.Y with PATCH gave 1.10
C8_Witness ==
    /\ pc = "done"
    /\ version_style = VERSION_STYLE_X_Y
    /\ version_tag = <<"1", ".", "9">>
    /\ bump = PATCH
    /\ next_version = <<"1", ".", "1", "0">>

\* The components of the tag between the "." characters, read off the tag
\* position by position
DotPositions(text) == {i \in DOMAIN text : text[i] = "."}

\* Every character of the tag is a digit or ".", and no component is empty: the
\* tag is a list of non-negative integers separated by "."
NonNegativeComponents(text) ==
    /\ text # <<>>
    /\ \A i \in DOMAIN text : text[i] \in {"0", "1", "2", "3", "4", "5", "6", "7", "8", "9", "."}
    /\ text[1] # "." /\ text[Len(text)] # "."
    /\ \A i \in DOMAIN text : (text[i] = "." /\ i < Len(text)) => text[i + 1] # "."

WellFormedTag(text, style) ==
    /\ NonNegativeComponents(text)
    /\ style = VERSION_STYLE_X_Y_Z => Cardinality(DotPositions(text)) = 2
    /\ style = VERSION_STYLE_X_Y => Cardinality(DotPositions(text)) = 1

\* C9: increment_bump returns a version only when the tag has exactly 3
\* (X.Y.Z) or exactly 2 (X.Y) components, each a non-negative integer; for
\* every other tag shape it fails with a parse error and returns no version.
C9_ParseShape ==
    (pc = "done" /\ version_style \in {VERSION_STYLE_X_Y_Z, VERSION_STYLE_X_Y}) =>
        /\ raised = "" => WellFormedTag(version_tag, version_style)
        /\ ~WellFormedTag(version_tag, version_style) =>
               (raised = "ValueError" /\ next_version = Unset)

----------------------------------------------------------------------------
(* Properties of work, checked under Spec *)

\* The aggregator's outcome over every commit the collaborator listed, under
\* the run's configuration
DecisionOverRange ==
    DecideBumpFromCommits([i \in DOMAIN git_log |-> MkCommit(git_log[i])],
                          ENV.IGNORE_PATHS, ENV.FORCE_PATCH_IF_NO_COMMIT_TOKEN)

\* C10: for a well-formed tag, a run of work prints exactly one line, equal to
\* increment_bump(tag, d, style), when the aggregator's decision d over all
\* commits of the range is MAJOR, MINOR or PATCH, and prints nothing when d is
\* NO_BUMP or absent (a range of zero commits included).
C10_OutputIffBump ==
    (pc = "done" /\ DecisionOverRange.raised = ""
                 /\ version_style \in {VERSION_STYLE_X_Y_Z, VERSION_STYLE_X_Y}
                 /\ WellFormedTag(version_tag, version_style)) =>
        IF DecisionOverRange.value \in {MAJOR, MINOR, PATCH}
        THEN stdout = <<IncrementBump(version_tag, DecisionOverRange.value,
                                      version_style).value>>
        ELSE stdout = <<>>


\* C11: a run whose version style is neither "X.Y.Z" nor "X.Y" ends in failure
\* with InvalidVersionStyle, and a run whose tag does not have the shape of its
\* style ends in failure with a parse error; in both cases nothing is printed,
\* for every commit range.
C11_MalformedConfigIsFatal ==
    pc = "done" =>
        /\ version_style \notin {VERSION_STYLE_X_Y_Z, VERSION_STYLE_X_Y}
               => (raised = "InvalidVersionStyle" /\ stdout = <<>>)
        /\ (/\ version_style \in {VERSION_STYLE_X_Y_Z, VERSION_STYLE_X_Y}
            /\ ~WellFormedTag(version_tag, version_style))
               => (raised = "ValueError" /\ stdout = <<>>)


----------------------------------------------------------------------------
(* Construction of Commit objects from the git log *)

\* The titles of TitleSet and titles with markers of two kinds in both orders
ClassifyTitles ==
    TitleSet \cup { <<"[Major]", " x ", "[patch]">>,
                    <<"[PATCH]", " x ", "[major]">>,
                    <<"[minor]", "[No-Bump]">> }

InitCommit ==
    /\ ENV \in [IGNORE_PATHS : PatternLists, FORCE_PATCH_IF_NO_COMMIT_TOKEN : BOOLEAN]
    /\ git_log \in SeqsUpTo([title : ClassifyTitles, changed_files : FileLists], MaxCommits)
    /\ commits = <<>>
    /\ ignore_path_patterns = <<>>
    /\ force_patch = FALSE
    /\ version_tag = <<>>
    /\ version_style = VERSION_STYLE_X_Y_Z
    /\ bump = Unset
    /\ next_version = Unset
    /\ stdout = <<>>
    /\ raised = ""
    /\ pc = "call"

\* Commit(sha=..., title=..., changed_files=...) for the first record of the log
ConstructCommit ==
    /\ pc = "call"
    /\ git_log # <<>>
    /\ LET c == CommitPostInit(git_log[1].title, git_log[1].changed_files, ENV)
       IN  /\ commits' = (IF c.raised = "" THEN <<c.value>> ELSE commits)
           /\ raised' = c.raised
    /\ pc' = "constructed"
    /\ UNCHANGED <<ENV, git_log, ignore_path_patterns, force_patch, version_tag,
                   version_style, bump, next_version, stdout>>

\* get_commits_with_changes(first_commit, force_patch) over the whole log
GetCommits ==
    /\ pc = "call"
    /\ LET r == GetCommitsWithChanges(git_log, ENV)
       IN  /\ commits' = (IF r.raised = "" THEN r.value ELSE commits)
           /\ raised' = r.raised
    /\ pc' = "done"
    /\ UNCHANGED <<ENV, git_log, ignore_path_patterns, force_patch, version_tag,
                   version_style, bump, next_version, stdout>>

NextCommit == ConstructCommit \/ GetCommits

SpecCommit == InitCommit /\ [][NextCommit]_vars

----------------------------------------------------------------------------
(* Properties of Commit, checked under SpecCommit *)

\* Some marker of kind b stands in the title, in any letter case and at any
\* position
TitleHasKind(title, b) ==
    \E i \in DOMAIN title : \E k \in DOMAIN BUMP_TOKENS[b] :
        LowerPiece(title[i]) = BUMP_TOKENS[b][k]

\* The first kind, in the order Major, Minor, Patch, NoBump, with a marker in
\* the title; "Tokenless" when the title has none
FirstKind(title) ==
    IF TitleHasKind(title, MAJOR) THEN MAJOR
    ELSE IF TitleHasKind(title, MINOR) THEN MINOR
    ELSE IF TitleHasKind(title, PATCH) THEN PATCH
    ELSE IF TitleHasKind(title, NO_BUMP) THEN NO_BUMP
    ELSE "Tokenless"

\* C12: the verdict recorded for a commit (Commit.bump_type) is the first kind,
\* in the order Major, Minor, Patch, NoBump, one of whose markers is in the
\* title case-insensitively, wherever the markers stand in the title.
C12_ClassificationPrecedence ==
    (pc = "constructed" /\ FirstKind(git_log[1].title) # "Tokenless") =>
        /\ raised = ""
        /\ commits[1].bump_type = FirstKind(git_log[1].title)

\* C13: constructing a Commit from any title and any changed-file list never
\* raises and yields a verdict among Major, Minor, Patch, NoBump and Tokenless
\* (an absent bump_type), whatever force_patch is; and every record of the log
\* is present in the list get_commits_with_changes returns.
C13_ClassificationTotal ==
    /\ pc = "constructed" =>
           /\ raised = ""
           /\ commits[1].bump_type \in {MAJOR, MINOR, PATCH, NO_BUMP, None}
    /\ pc = "done" =>
           /\ raised = ""
           /\ Len(commits) = Len(git_log)
           /\ \A i \in DOMAIN git_log :
                  /\ commits[i].title = git_log[i].title
                  /\ commits[i].changed_files = git_log[i].changed_files

====
